---- MODULE Spec2Model ----
(***************************************************************************)
(* buildStaticStandalone (code/core/src/core-server/build-static.ts).      *)
(*                                                                         *)
(* One call of the async function is modelled as a main control position   *)
(* (pc) that moves from one await to the next, plus the promises the call  *)
(* creates: the entries of the `effects` array, the story index generator  *)
(* handle, the preview build chain and the telemetry task.  A promise is   *)
(* started when the code calls the function that returns it and settles    *)
(* in a later step of its own.  Paths follow POSIX node:path semantics: a  *)
(* path is a record [abs, segs]; '' is the relative path without segments  *)
(* and '/' the absolute path without segments.                             *)
(***************************************************************************)
EXTENDS Integers, Sequences, FiniteSets, TLC

(* ---- bounds ---- *)
MaxSegs == 1

(* ---- inputs ---- *)
SegNames == {".", "..", "out"}

RECURSIVE SeqsUpTo(_, _)
SeqsUpTo(S, n) ==
  IF n = 0 THEN {<<>>}
  ELSE LET shorter == SeqsUpTo(S, n - 1)
       IN shorter \cup {Append(q, s) : q \in {r \in shorter : Len(r) = n - 1}, s \in S}

OutputDirInputs == [abs : BOOLEAN, segs : SeqsUpTo(SegNames, MaxSegs)]

cwd == <<"proj">>

\* options.statsJson and options.webpackStatsJson: unset, true, or a path
StatsValues == {"false", "true"}

WebpackStatsValues == {"false", "webpack-stats.json"}

StaticDirsValues == {"undefined", "empty", "dirs"}

\* presets.apply('core') yields undefined or an object with the two flags
CoreUndefined ==
  [defined |-> FALSE, disableProjectJson |-> FALSE, disableTelemetry |-> FALSE]

CoreValues ==
  {CoreUndefined}
  \cup [defined : {TRUE}, disableProjectJson : BOOLEAN, disableTelemetry : BOOLEAN]

EffectNames == {"static", "assets", "index", "metadata", "telemetry"}

EmptyString == [abs |-> FALSE, segs |-> <<>>]
RootDir     == [abs |-> TRUE, segs |-> <<>>]

VARIABLES
  options,      \* the BuildStaticStandaloneOptions object (mutated by the call)
  disk,         \* what the file system holds at resolve(options.outputDir)
  outputDirFiles, \* what readdir(options.outputDir) returned
  pc,           \* the await the call is suspended at, or done / rejected
  error,        \* the error the call rejected with
  trace,        \* the calls and checks made by the call itself, in order
  logger,       \* the log lines written, in order
  staticDirs,   \* presets.apply('staticDirs')
  core,         \* presets.apply('core') of the second pass
  managerBuild, \* managerBuilder.build(...) promise
  effects,      \* the effects array
  task,         \* status of each promise pushed to effects
  initializedStoryIndexGenerator, \* the generator handle promise
  generators,   \* number of StoryIndexGenerator objects constructed
  initializeCalls, \* number of generator.initialize() calls
  previewBuild, \* previewBuilder.build(...) promise
  stats,        \* outputStats(...) promise inside the .then handler
  statsTarget,  \* the targets handed to outputStats, in order
  previewChain, \* the promise build().then().catch() handed to Promise.all
  promiseAll,   \* the Promise.all of line 181: none, pending, fulfilled, or
                \* the name of the member whose rejection rejected it
  exitCode,     \* process.exitCode
  exitCodeWrites, \* number of assignments to process.exitCode
  storyIndex,   \* the value the telemetry task read from generator?.getIndex()
  telemetryEvents \* payloads passed to a telemetry() call that succeeded

vars == <<options, disk, outputDirFiles, pc, error, trace, logger, staticDirs,
          core, managerBuild, effects, task, initializedStoryIndexGenerator,
          generators, initializeCalls, previewBuild, stats, statsTarget,
          previewChain, promiseAll, exitCode, exitCodeWrites, storyIndex,
          telemetryEvents>>

guardVars == <<options, disk, outputDirFiles>>
configVars == <<staticDirs, core, managerBuild>>
effectVars == <<effects, task, initializedStoryIndexGenerator, generators,
                initializeCalls, storyIndex, telemetryEvents>>
previewVars == <<previewBuild, stats, statsTarget, previewChain, exitCode,
                 exitCodeWrites>>
mainVars == <<pc, error, trace>>

(* ---- node:path ---- *)
RECURSIVE normalizeSegs(_, _)
normalizeSegs(acc, segs) ==
  IF segs = <<>> THEN acc
  ELSE LET s == Head(segs)
           rest == Tail(segs)
       IN IF s = "." THEN normalizeSegs(acc, rest)
          ELSE IF s = ".."
            THEN normalizeSegs(IF acc = <<>> THEN <<>>
                               ELSE SubSeq(acc, 1, Len(acc) - 1), rest)
            ELSE normalizeSegs(Append(acc, s), rest)

resolve(p) ==
  [abs |-> TRUE,
   segs |-> IF p.abs THEN normalizeSegs(<<>>, p.segs)
            ELSE normalizeSegs(cwd, p.segs)]

(* ---- JavaScript truthiness of the values used in conditions ---- *)
\* a test of the list's length in place of the test of the value
truthyStaticDirs_NonEmpty(v) == v = "dirs"

truthyStaticDirs(v) == v # "undefined"

truthyStats(v) == v # "false"

\* only statsJson is read
statsOptionOf_OnlyStatsJson(o) == o.statsJson

statsOptionOf(o) ==
  IF truthyStats(o.webpackStatsJson) THEN o.webpackStatsJson ELSE o.statsJson

\* core?.disableProjectJson and core?.disableTelemetry
disableProjectJson(c) == c.defined /\ c.disableProjectJson

disableTelemetry(c) == c.defined /\ c.disableTelemetry

\* a stats option that names a file, as a path
namedPath(v) == [abs |-> FALSE, segs |-> <<v>>]

(* ---- what the file system can hold at the resolved output path ---- *)
DiskStates(target) ==
  IF target = RootDir THEN {"nonempty"}
  ELSE IF target.segs = cwd THEN {"empty", "nonempty"}
  ELSE {"missing", "file", "empty", "nonempty"}

Init ==
  /\ options \in [outputDir : OutputDirInputs,
                  configType : {"unset"},
                  ignorePreview : BOOLEAN,
                  debugWebpack : BOOLEAN,
                  webpackStatsJson : WebpackStatsValues,
                  statsJson : StatsValues]
  /\ disk \in DiskStates(resolve(options.outputDir))
  /\ outputDirFiles = "unset"
  /\ managerBuild = "none"
  /\ promiseAll = "none"
  /\ pc = "start"
  /\ error = "none"
  /\ trace = <<>>
  /\ logger = <<>>
  /\ staticDirs = "unset"
  /\ core = CoreUndefined
  /\ effects = <<>>
  /\ task = [e \in EffectNames |-> "none"]
  /\ initializedStoryIndexGenerator = "unset"
  /\ generators = 0
  /\ initializeCalls = 0
  /\ previewBuild = "none"
  /\ stats = "none"
  /\ statsTarget = <<>>
  /\ previewChain = "none"
  /\ exitCode = 0
  /\ exitCodeWrites = 0
  /\ storyIndex = "unset"
  /\ telemetryEvents = <<>>

(* ---- the call itself: one step per await ---- *)
Advance(to, events) ==
  /\ pc' = to
  /\ trace' = trace \o events
  /\ UNCHANGED error

Throw(err, events) ==
  /\ pc' = "rejected"
  /\ error' = err
  /\ trace' = trace \o events

\* lines 34-38 without the empty-string test
CheckEmpty_NoTest ==
  /\ pc = "start"
  /\ options' = [options EXCEPT !.configType = "PRODUCTION"]
  /\ Advance("resolve", <<"checkEmpty">>)
  /\ UNCHANGED <<disk, outputDirFiles, logger, configVars, effectVars,
                 previewVars, promiseAll>>

\* lines 34-38
CheckEmpty ==
  /\ pc = "start"
  /\ options' = [options EXCEPT !.configType = "PRODUCTION"]
  /\ IF options.outputDir = EmptyString
       THEN Throw("Won't remove current directory", <<"checkEmpty">>)
       ELSE Advance("resolve", <<"checkEmpty">>)
  /\ UNCHANGED <<disk, outputDirFiles, logger, configVars, effectVars,
                 previewVars, promiseAll>>

\* lines 40-46 with the root test applied to the path as given, before
\* it is resolved
ResolveAndCheckRoot_TestBeforeResolve ==
  /\ pc = "resolve"
  /\ options' = [options EXCEPT !.outputDir = resolve(options.outputDir)]
  /\ logger' = Append(logger, "Cleaning outputDir")
  /\ IF options.outputDir = RootDir
       THEN Throw("Won't remove directory '/'", <<"checkRoot", "resolve">>)
       ELSE Advance("readdir", <<"checkRoot", "resolve">>)
  /\ UNCHANGED <<disk, outputDirFiles, configVars, effectVars, previewVars,
                 promiseAll>>

\* lines 40-46
ResolveAndCheckRoot ==
  /\ pc = "resolve"
  /\ options' = [options EXCEPT !.outputDir = resolve(options.outputDir)]
  /\ logger' = Append(logger, "Cleaning outputDir")
  /\ IF options'.outputDir = RootDir
       THEN Throw("Won't remove directory '/'", <<"resolve", "checkRoot">>)
       ELSE Advance("readdir", <<"resolve", "checkRoot">>)
  /\ UNCHANGED <<disk, outputDirFiles, configVars, effectVars, previewVars,
                 promiseAll>>

\* lines 48-49 with the length test dropped: the directory is never cleaned
Readdir_NeverCleans ==
  /\ pc = "readdir"
  /\ CASE disk = "missing" ->
            /\ Throw("ENOENT", <<"readdir">>)
            /\ UNCHANGED outputDirFiles
       [] disk = "file" ->
            /\ Throw("ENOTDIR", <<"readdir">>)
            /\ UNCHANGED outputDirFiles
       [] disk = "empty" ->
            /\ Advance("loadMainConfig", <<"readdir">>)
            /\ outputDirFiles' = "[]"
       [] disk = "nonempty" ->
            /\ Advance("loadMainConfig", <<"readdir">>)
            /\ outputDirFiles' = "[files]"
  /\ UNCHANGED <<options, disk, logger, configVars, effectVars, previewVars,
                 promiseAll>>

\* lines 48-49
Readdir ==
  /\ pc = "readdir"
  /\ CASE disk = "missing" ->
            /\ Throw("ENOENT", <<"readdir">>)
            /\ UNCHANGED outputDirFiles
       [] disk = "file" ->
            /\ Throw("ENOTDIR", <<"readdir">>)
            /\ UNCHANGED outputDirFiles
       [] disk = "empty" ->
            /\ Advance("loadMainConfig", <<"readdir">>)
            /\ outputDirFiles' = "[]"
       [] disk = "nonempty" ->
            /\ Advance("rm", <<"readdir">>)
            /\ outputDirFiles' = "[files]"
  /\ UNCHANGED <<options, disk, logger, configVars, effectVars, previewVars,
                 promiseAll>>

\* line 50
Rm ==
  /\ pc = "rm"
  /\ \/ /\ disk' = "missing"
        /\ Advance("mkdir", <<"rm">>)
     \/ /\ UNCHANGED disk
        /\ Throw("rm failed", <<"rm">>)
  /\ UNCHANGED <<options, outputDirFiles, logger, configVars, effectVars,
                 previewVars, promiseAll>>

\* line 51
Mkdir ==
  /\ pc = "mkdir"
  /\ \/ /\ disk' = "empty"
        /\ Advance("loadMainConfig", <<"mkdir">>)
     \/ /\ UNCHANGED disk
        /\ Throw("mkdir failed", <<"mkdir">>)
  /\ UNCHANGED <<options, outputDirFiles, logger, configVars, effectVars,
                 previewVars, promiseAll>>

\* an awaited call of an external collaborator: it resolves or rejects
Await(from, to, call) ==
  /\ pc = from
  /\ \/ Advance(to, <<call>>)
     \/ Throw(call, <<call>>)

\* line 54
LoadMainConfig ==
  /\ Await("loadMainConfig", "loadAllPresets1", "loadMainConfig")
  /\ UNCHANGED <<guardVars, logger, configVars, effectVars, previewVars,
                 promiseAll>>

\* lines 65-76
LoadAllPresets1 ==
  /\ Await("loadAllPresets1", "applyCore1", "loadAllPresets#1")
  /\ logger' = Append(logger, "Loading presets")
  /\ UNCHANGED <<guardVars, configVars, effectVars, previewVars, promiseAll>>

\* line 78
ApplyCore1 ==
  /\ Await("applyCore1", "applyBuild1", "apply(core)#1")
  /\ UNCHANGED <<guardVars, logger, configVars, effectVars, previewVars,
                 promiseAll>>

\* line 79
ApplyBuild1 ==
  /\ Await("applyBuild1", "getBuilders", "apply(build)#1")
  /\ UNCHANGED <<guardVars, logger, configVars, effectVars, previewVars,
                 promiseAll>>

\* line 80 followed at once by the manager build, without lines 82-119
GetBuilders_SkipsSecondPass ==
  /\ Await("getBuilders", "managerBuild", "getBuilders")
  /\ UNCHANGED <<guardVars, logger, configVars, effectVars, previewVars,
                 promiseAll>>

\* line 80
GetBuilders ==
  /\ Await("getBuilders", "loadAllPresets2", "getBuilders")
  /\ UNCHANGED <<guardVars, logger, configVars, effectVars, previewVars,
                 promiseAll>>

\* lines 82-99
LoadAllPresets2 ==
  /\ Await("loadAllPresets2", "applyAll", "loadAllPresets#2")
  /\ UNCHANGED <<guardVars, logger, configVars, effectVars, previewVars,
                 promiseAll>>

\* lines 101-119: Promise.all of the six presets.apply calls
ApplyAll ==
  /\ pc = "applyAll"
  /\ \/ /\ staticDirs' \in StaticDirsValues
        /\ core' \in CoreValues
        /\ Advance("managerBuild", <<"apply(six sections)#2">>)
     \/ /\ UNCHANGED <<staticDirs, core>>
        /\ Throw("apply(six sections)#2", <<"apply(six sections)#2">>)
  /\ UNCHANGED <<guardVars, logger, managerBuild, effectVars, previewVars,
                 promiseAll>>

\* utils/build-or-throw: the promise buildOrThrow returns settles as the
\* promise of its callback does
buildOrThrow(outcome) == outcome

\* lines 121-123 without the await: the call goes on while the build runs
ManagerBuild_NotAwaited ==
  /\ pc = "managerBuild"
  /\ managerBuild' = "pending"
  /\ Advance("queueEffects", <<"managerBuilder.build">>)
  /\ UNCHANGED <<options, disk, outputDirFiles, logger, staticDirs, core,
                 effectVars, previewVars, promiseAll>>

\* lines 121-123 with the rejection of the manager build swallowed
ManagerBuild_Swallowed ==
  /\ pc = "managerBuild"
  /\ \E outcome \in {"fulfilled", "rejected"} :
       /\ managerBuild' = outcome
       /\ disk' = IF outcome = "fulfilled" THEN "nonempty" ELSE disk
       /\ Advance("queueEffects", <<"managerBuilder.build">>)
  /\ UNCHANGED <<options, outputDirFiles, logger, staticDirs, core, effectVars,
                 previewVars, promiseAll>>

\* lines 121-123
ManagerBuild ==
  /\ pc = "managerBuild"
  /\ \E outcome \in {"fulfilled", "rejected"} :
       /\ managerBuild' = outcome
       /\ IF buildOrThrow(outcome) = "fulfilled"
            THEN /\ disk' = "nonempty"
                 /\ Advance("queueEffects", <<"managerBuilder.build">>)
            ELSE /\ UNCHANGED disk
                 /\ Throw("managerBuilder.build", <<"managerBuilder.build">>)
  /\ UNCHANGED <<options, outputDirFiles, logger, staticDirs, core, effectVars,
                 previewVars, promiseAll>>

Range(q) == {q[i] : i \in 1..Len(q)}

(* ---- Promise.all([...preview chain, ...effects]), lines 181-206 ---- *)
\* the members without the preview chain
membersFulfilled_EffectsOnly(effs, t, chain) ==
  \A e \in Range(effs) : t[e] = "fulfilled"

\* every member is fulfilled: the preview chain, when there is one, and
\* each promise of effects
membersFulfilled(effs, t, chain) ==
  /\ chain \in {"none", "fulfilled"}
  /\ \A e \in Range(effs) : t[e] = "fulfilled"

\* the state of the Promise.all at its creation, from the state of its members
promiseAllOf(effs, t, chain) ==
  LET rejected == {i \in 1..Len(effs) : t[effs[i]] = "rejected"}
  IN IF rejected # {}
       THEN effs[CHOOSE i \in rejected : \A j \in rejected : i <= j]
       ELSE IF membersFulfilled(effs, t, chain) THEN "fulfilled" ELSE "pending"

\* Promise.race instead of Promise.all: the first member to settle settles it
promiseAllAfter_Race(who, outcome, t, chain) ==
  IF promiseAll # "pending" THEN promiseAll
  ELSE IF outcome = "rejected" THEN who
  ELSE "fulfilled"

\* Promise.allSettled instead of Promise.all: a rejection does not reject it
promiseAllAfter_AllSettled(who, outcome, t, chain) ==
  IF promiseAll # "pending" THEN promiseAll
  ELSE IF /\ chain \in {"none", "fulfilled", "rejected"}
          /\ \A e \in Range(effects) : t[e] \in {"fulfilled", "rejected"}
    THEN "fulfilled"
    ELSE "pending"

\* the state of the Promise.all after member `who` settled with `outcome`:
\* the first rejection rejects it, the last fulfilment fulfils it
promiseAllAfter(who, outcome, t, chain) ==
  IF promiseAll # "pending" THEN promiseAll
  ELSE IF outcome = "rejected" THEN who
  ELSE IF membersFulfilled(effects, t, chain) THEN "fulfilled"
  ELSE "pending"

\* lines 174-206 up to the suspension at the await: the log line, the call
\* of previewBuilder.build and the Promise.all over the chain and effects
BeginJoin(events, effs, t) ==
  /\ Advance("join", events \o (IF options.ignorePreview THEN <<>>
                                 ELSE <<"previewBuilder.build">>)
                     \o <<"Promise.all">>)
  /\ logger' = Append(logger, IF options.ignorePreview
                                THEN "Not building preview"
                                ELSE "Building preview..")
  /\ previewBuild' = IF options.ignorePreview THEN "none" ELSE "pending"
  /\ previewChain' = IF options.ignorePreview THEN "none" ELSE "pending"
  /\ promiseAll' = promiseAllOf(effs, t, previewChain')
  /\ UNCHANGED <<stats, statsTarget, exitCode, exitCodeWrites>>

\* lines 125-168 with the metadata export pushed inside the preview branch
queuedEffects_MetadataInPreviewBranch(sd, ignorePreview, c) ==
  (IF truthyStaticDirs(sd) THEN <<"static">> ELSE <<>>)
  \o <<"assets">>
  \o (IF ~ignorePreview THEN <<"index">> ELSE <<>>)
  \o (IF ~ignorePreview /\ ~disableProjectJson(c) THEN <<"metadata">> ELSE <<>>)

\* lines 125-168: the effects pushed after the manager build
queuedEffects(sd, ignorePreview, c) ==
  (IF truthyStaticDirs(sd) THEN <<"static">> ELSE <<>>)
  \o <<"assets">>
  \o (IF ~ignorePreview THEN <<"index">> ELSE <<>>)
  \o (IF ~disableProjectJson(c) THEN <<"metadata">> ELSE <<>>)

\* lines 125-170, and lines 174-206 when debugWebpack is off (no await
\* separates them)
QueueEffects ==
  /\ pc = "queueEffects"
  /\ effects' = effects \o queuedEffects(staticDirs, options.ignorePreview, core)
  /\ task' = [e \in EffectNames |->
                IF e \in Range(effects') THEN "pending" ELSE task[e]]
  /\ IF ~options.ignorePreview
       THEN /\ generators' = generators + 1
            /\ initializeCalls' = initializeCalls + 1
            /\ initializedStoryIndexGenerator' = "pending"
       ELSE /\ initializedStoryIndexGenerator' = "undefined"
            /\ UNCHANGED <<generators, initializeCalls>>
  /\ IF options.debugWebpack
       THEN /\ Advance("getConfig", <<"queueEffects">>)
            /\ UNCHANGED <<logger, previewVars, promiseAll>>
       ELSE BeginJoin(<<"queueEffects">>, effects', task')
  /\ UNCHANGED <<guardVars, configVars, storyIndex, telemetryEvents>>

\* lines 170-206 with debugWebpack on
GetConfig ==
  /\ pc = "getConfig"
  /\ \/ BeginJoin(<<"previewBuilder.getConfig">>, effects, task)
     \/ /\ Throw("previewBuilder.getConfig", <<"previewBuilder.getConfig">>)
        /\ UNCHANGED <<logger, previewVars, promiseAll>>
  /\ UNCHANGED <<guardVars, configVars, effectVars>>

(* ---- the promises in effects ---- *)
Settle(e, outcome) ==
  /\ task[e] = "pending"
  /\ task' = [task EXCEPT ![e] = outcome]
  /\ disk' = IF outcome = "fulfilled" THEN "nonempty" ELSE disk
  /\ promiseAll' = promiseAllAfter(e, outcome, task', previewChain)
  /\ UNCHANGED <<options, outputDirFiles, mainVars, logger, configVars,
                 effects, initializedStoryIndexGenerator, generators,
                 initializeCalls, storyIndex, telemetryEvents, previewVars>>

\* lines 126-128: copyAllStaticFilesRelativeToMain
StaticCopy == \E outcome \in {"fulfilled", "rejected"} : Settle("static", outcome)

\* line 137: cp(coreServerPublicDir, outputDir)
AssetCopy == \E outcome \in {"fulfilled", "rejected"} : Settle("assets", outcome)

\* lines 165-167: extractStorybookMetadata
MetadataExport ==
  \E outcome \in {"fulfilled", "rejected"} : Settle("metadata", outcome)

\* line 155: generator.initialize().then(() => generator)
GeneratorInitialize ==
  /\ initializedStoryIndexGenerator = "pending"
  /\ initializedStoryIndexGenerator' \in {"generator", "rejected"}
  /\ UNCHANGED <<guardVars, mainVars, logger, configVars, effects, task,
                 generators, initializeCalls, storyIndex, telemetryEvents,
                 previewVars, promiseAll>>

\* lines 156-161: extractStoriesJson awaits the handle, then writes index.json
IndexExport ==
  /\ initializedStoryIndexGenerator \in {"generator", "rejected"}
  /\ IF initializedStoryIndexGenerator = "rejected"
       THEN Settle("index", "rejected")
       ELSE \E outcome \in {"fulfilled", "rejected"} : Settle("index", outcome)

(* ---- the preview chain, lines 185-203 ---- *)
\* lines 185-189: previewBuilder.build settles
PreviewBuild ==
  /\ previewBuild = "pending"
  /\ \E outcome \in {"fulfilled", "rejected"} :
       /\ previewBuild' = outcome
       /\ disk' = IF outcome = "fulfilled" THEN "nonempty" ELSE disk
  /\ UNCHANGED <<options, outputDirFiles, mainVars, logger, configVars,
                 effectVars, stats, statsTarget, previewChain, promiseAll,
                 exitCode, exitCodeWrites>>

\* lines 190-198: the .then handler
PreviewThen ==
  /\ previewBuild = "fulfilled"
  /\ previewChain = "pending"
  /\ stats = "none"
  /\ logger' = Append(logger, "Preview built")
  /\ LET statsOption == statsOptionOf(options)
     IN IF truthyStats(statsOption)
          THEN /\ stats' = "pending"
               /\ statsTarget' =
                    Append(statsTarget, IF statsOption = "true"
                                          THEN options.outputDir
                                          ELSE namedPath(statsOption))
               /\ UNCHANGED <<previewChain, promiseAll>>
          ELSE /\ previewChain' = "fulfilled"
               /\ promiseAll' =
                    promiseAllAfter("preview", "fulfilled", task, previewChain')
               /\ UNCHANGED <<stats, statsTarget>>
  /\ UNCHANGED <<guardVars, mainVars, configVars, effectVars, previewBuild,
                 exitCode, exitCodeWrites>>

\* line 196: outputStats settles
OutputStats ==
  /\ stats = "pending"
  /\ \E outcome \in {"fulfilled", "rejected"} :
       /\ stats' = outcome
       /\ previewChain' = IF outcome = "fulfilled" THEN "fulfilled"
                          ELSE previewChain
       /\ promiseAll' = IF outcome = "fulfilled"
            THEN promiseAllAfter("preview", "fulfilled", task, previewChain')
            ELSE promiseAll
  /\ UNCHANGED <<guardVars, mainVars, logger, configVars, effectVars,
                 previewBuild, statsTarget, exitCode, exitCodeWrites>>

\* lines 199-203 without the assignment to process.exitCode
PreviewCatch_NoExitCode ==
  /\ previewChain = "pending"
  /\ previewBuild = "rejected" \/ stats = "rejected"
  /\ logger' = Append(logger, "Failed to build the preview")
  /\ previewChain' = "rejected"
  /\ promiseAll' = promiseAllAfter("preview", "rejected", task, previewChain')
  /\ UNCHANGED <<guardVars, mainVars, configVars, effectVars, previewBuild,
                 stats, statsTarget, exitCode, exitCodeWrites>>

\* lines 199-203: the .catch handler
PreviewCatch ==
  /\ previewChain = "pending"
  /\ previewBuild = "rejected" \/ stats = "rejected"
  /\ logger' = Append(logger, "Failed to build the preview")
  /\ exitCode' = 1
  /\ exitCodeWrites' = exitCodeWrites + 1
  /\ previewChain' = "rejected"
  /\ promiseAll' = promiseAllAfter("preview", "rejected", task, previewChain')
  /\ UNCHANGED <<guardVars, mainVars, configVars, effectVars, previewBuild,
                 stats, statsTarget>>

\* the rejection of the join also marks the exit status
JoinRejected_SetsExitCode ==
  /\ pc = "join"
  /\ promiseAll \notin {"none", "pending", "fulfilled"}
  /\ Throw(promiseAll, <<>>)
  /\ exitCode' = 1
  /\ exitCodeWrites' = exitCodeWrites + 1
  /\ UNCHANGED <<guardVars, logger, configVars, effectVars, previewBuild,
                 stats, statsTarget, previewChain, promiseAll>>

(* ---- the call resumes from the await of line 181 ---- *)
JoinRejected ==
  /\ pc = "join"
  /\ promiseAll \notin {"none", "pending", "fulfilled"}
  /\ Throw(promiseAll, <<>>)
  /\ UNCHANGED <<guardVars, logger, configVars, effectVars, previewVars,
                 promiseAll>>

\* lines 208-227
JoinFulfilled ==
  /\ pc = "join"
  /\ promiseAll = "fulfilled"
  /\ IF ~disableTelemetry(core)
       THEN /\ effects' = Append(effects, "telemetry")
            /\ task' = [task EXCEPT !["telemetry"] = "pending"]
       ELSE UNCHANGED <<effects, task>>
  /\ logger' = Append(logger, "Output directory")
  /\ Advance("done", <<"return">>)
  /\ UNCHANGED <<guardVars, configVars, initializedStoryIndexGenerator,
                 generators, initializeCalls, storyIndex, telemetryEvents,
                 previewVars, promiseAll>>

\* a rejection of the telemetry task marks the exit status
TelemetryStep_FailureSetsExitCode(from, to) ==
  /\ task["telemetry"] = from
  /\ task' = [task EXCEPT !["telemetry"] = to]
  /\ exitCode' = IF to = "rejected" THEN 1 ELSE exitCode
  /\ exitCodeWrites' = IF to = "rejected" THEN exitCodeWrites + 1
                       ELSE exitCodeWrites
  /\ UNCHANGED <<guardVars, mainVars, logger, configVars, effects,
                 initializedStoryIndexGenerator, generators, initializeCalls,
                 previewBuild, stats, statsTarget, previewChain, promiseAll>>

(* ---- the telemetry task, lines 211-222 ---- *)
TelemetryStep(from, to) ==
  /\ task["telemetry"] = from
  /\ task' = [task EXCEPT !["telemetry"] = to]
  /\ UNCHANGED <<guardVars, mainVars, logger, configVars, effects,
                 initializedStoryIndexGenerator, generators, initializeCalls,
                 previewVars, promiseAll>>

\* lines 211-212 with the telemetry task initializing the generator again
\* instead of reading the handle
TelemetryThen_Reinitializes ==
  /\ initializedStoryIndexGenerator \in {"generator", "undefined"}
  /\ task["telemetry"] = "pending"
  /\ IF initializedStoryIndexGenerator = "generator"
       THEN /\ task' = [task EXCEPT !["telemetry"] = "getIndex"]
            /\ initializeCalls' = initializeCalls + 1
            /\ UNCHANGED storyIndex
       ELSE /\ task' = [task EXCEPT !["telemetry"] = "getPrecedingUpgrade"]
            /\ storyIndex' = "undefined"
            /\ UNCHANGED initializeCalls
  /\ UNCHANGED <<guardVars, mainVars, logger, configVars, effects,
                 initializedStoryIndexGenerator, generators, previewVars,
                 promiseAll, telemetryEvents>>

\* lines 211-212: the callback runs once the handle is fulfilled
TelemetryThen ==
  /\ initializedStoryIndexGenerator \in {"generator", "undefined"}
  /\ IF initializedStoryIndexGenerator = "generator"
       THEN /\ TelemetryStep("pending", "getIndex")
            /\ UNCHANGED storyIndex
       ELSE /\ TelemetryStep("pending", "getPrecedingUpgrade")
            /\ storyIndex' = "undefined"
  /\ UNCHANGED telemetryEvents

\* line 212: generator.getIndex() settles
TelemetryGetIndex ==
  /\ \/ /\ TelemetryStep("getIndex", "getPrecedingUpgrade")
        /\ storyIndex' = "index"
     \/ /\ TelemetryStep("getIndex", "rejected")
        /\ UNCHANGED storyIndex
  /\ UNCHANGED telemetryEvents

\* lines 213-220 without the test of storyIndex
payloadOf_AlwaysIndex(index) == {"precedingUpgrade", "storyIndex"}

\* lines 213-220: the payload handed to telemetry()
payloadOf(index) ==
  {"precedingUpgrade"} \cup (IF index = "index" THEN {"storyIndex"} ELSE {})

\* line 214: getPrecedingUpgrade settles
TelemetryGetPrecedingUpgrade ==
  /\ \/ TelemetryStep("getPrecedingUpgrade", "telemetry")
     \/ TelemetryStep("getPrecedingUpgrade", "rejected")
  /\ UNCHANGED <<storyIndex, telemetryEvents>>

\* line 221: telemetry('build', payload, ...) settles
TelemetrySubmit ==
  /\ \/ /\ TelemetryStep("telemetry", "fulfilled")
        /\ telemetryEvents' = Append(telemetryEvents, payloadOf(storyIndex))
     \/ /\ TelemetryStep("telemetry", "rejected")
        /\ UNCHANGED telemetryEvents
  /\ UNCHANGED storyIndex

Next ==
  \/ CheckEmpty
  \/ ResolveAndCheckRoot
  \/ Readdir
  \/ Rm
  \/ Mkdir
  \/ LoadMainConfig
  \/ LoadAllPresets1
  \/ ApplyCore1
  \/ ApplyBuild1
  \/ GetBuilders
  \/ LoadAllPresets2
  \/ ApplyAll
  \/ ManagerBuild
  \/ QueueEffects
  \/ GetConfig
  \/ StaticCopy
  \/ AssetCopy
  \/ MetadataExport
  \/ GeneratorInitialize
  \/ IndexExport
  \/ PreviewBuild
  \/ PreviewThen
  \/ OutputStats
  \/ PreviewCatch
  \/ JoinRejected
  \/ JoinFulfilled
  \/ TelemetryThen
  \/ TelemetryGetIndex
  \/ TelemetryGetPrecedingUpgrade
  \/ TelemetrySubmit

Spec == Init /\ [][Next]_vars

(***************************************************************************)
(* Properties                                                              *)
(***************************************************************************)
SideEffects == {"static", "assets", "index", "metadata"}

\* nothing is left to run: the call has settled and so has every promise
Quiescent ==
  /\ pc \in {"done", "rejected"}
  /\ \A e \in EffectNames : task[e] \in {"none", "fulfilled", "rejected"}
  /\ initializedStoryIndexGenerator # "pending"
  /\ previewBuild # "pending"
  /\ stats # "pending"
  /\ previewChain # "pending"

IsPrefix(a, b) == Len(a) <= Len(b) /\ a = SubSeq(b, 1, Len(a))

GuardSteps == <<"checkEmpty", "resolve", "checkRoot", "readdir", "rm", "mkdir">>

IsGuardStep(ev) == ev \in Range(GuardSteps)

guardTrace == SelectSeq(trace, IsGuardStep)

NothingStarted ==
  /\ managerBuild = "none"
  /\ previewBuild = "none"
  /\ previewChain = "none"
  /\ promiseAll = "none"
  /\ effects = <<>>
  /\ \A e \in EffectNames : task[e] = "none"
  /\ generators = 0
  /\ initializeCalls = 0
  /\ telemetryEvents = <<>>

\* C1: a call whose outputDir is '' rejects with the configuration error
\* after the empty-string test alone: no file system operation, no
\* configuration load and no builder call is ever made.
C1_EmptyOutputDirRejectedFirst ==
  options.outputDir = EmptyString =>
    /\ pc \in {"start", "rejected"}
    /\ pc = "rejected" => error = "Won't remove current directory"
    /\ Range(trace) \subseteq {"checkEmpty"}
    /\ outputDirFiles = "unset"
    /\ NothingStarted

C1_Witness ==
  /\ options.outputDir = EmptyString
  /\ pc = "rejected"
  /\ error = "Won't remove current directory"

\* C2: a call whose outputDir resolves to '/' rejects with the configuration
\* error after the resolution and before the directory is listed or
\* removed; the guard's steps occur in the order empty-string test,
\* resolution, root test, listing, removal.
C2_RootOutputDirRejectedInOrder ==
  /\ IsPrefix(guardTrace, GuardSteps)
  /\ (options.outputDir # EmptyString /\ resolve(options.outputDir) = RootDir) =>
       /\ pc \in {"start", "resolve", "rejected"}
       /\ pc = "rejected" =>
            /\ error = "Won't remove directory '/'"
            /\ trace = <<"checkEmpty", "resolve", "checkRoot">>
       /\ outputDirFiles = "unset"
       /\ disk = "nonempty"
       /\ NothingStarted

C2_Witness ==
  /\ options.outputDir = RootDir
  /\ pc = "rejected"
  /\ error = "Won't remove directory '/'"
  /\ trace = <<"checkEmpty", "resolve", "checkRoot">>

\* C3: for an output directory that does not exist the guard removes
\* nothing and raises no error: the call goes on to the configuration load.
C3_MissingOutputDirPassesGuard ==
  (disk = "missing" /\ outputDirFiles = "unset" /\ "readdir" \in Range(trace)) =>
    /\ pc # "rejected"
    /\ "rm" \notin Range(trace)

PreBuildStages ==
  {"loadMainConfig", "loadAllPresets1", "applyCore1", "applyBuild1",
   "getBuilders", "loadAllPresets2", "applyAll", "managerBuild"}

\* C4: once the guard has passed for a directory that had files, the
\* directory exists and is empty, after a removal and a creation, and it
\* stays so until a builder build or side-effect task starts; a directory
\* found empty is neither removed nor created.
C4_GuardLeavesEmptyOutputDir ==
  /\ pc \in PreBuildStages =>
       /\ outputDirFiles \in {"[]", "[files]"}
       /\ disk = "empty"
       /\ NothingStarted
  /\ (pc \in PreBuildStages /\ outputDirFiles = "[files]") =>
       guardTrace = GuardSteps
  /\ outputDirFiles = "[]" =>
       guardTrace = <<"checkEmpty", "resolve", "checkRoot", "readdir">>

C4_Witness ==
  /\ pc = "loadMainConfig"
  /\ outputDirFiles = "[files]"
  /\ disk = "empty"

\* C5: when the manager build rejects, the call rejects, the preview build
\* is never started and no side-effect task is ever queued or started.
C5_ManagerBuildFailureAborts ==
  managerBuild = "rejected" =>
    /\ pc = "rejected"
    /\ error = "managerBuilder.build"
    /\ previewBuild = "none"
    /\ previewChain = "none"
    /\ promiseAll = "none"
    /\ effects = <<>>
    /\ \A e \in EffectNames : task[e] = "none"
    /\ generators = 0
    /\ telemetryEvents = <<>>

C5_Witness ==
  /\ managerBuild = "rejected"
  /\ pc = "rejected"

\* C6: when the preview build rejects, the call never returns normally,
\* process.exitCode is 1 from the moment the chain has rejected, and once
\* nothing is left to run the call has rejected with exitCode 1, whatever
\* the side-effect tasks did and in whatever order.
C6_PreviewBuildFailureFails ==
  previewBuild = "rejected" =>
    /\ pc \in {"join", "rejected"}
    /\ previewChain \in {"pending", "rejected"}
    /\ previewChain = "rejected" => exitCode = 1
    /\ Quiescent => (exitCode = 1 /\ pc = "rejected")

\* a side-effect task rejected the join first, the preview build rejected too
C6_Witness ==
  /\ previewBuild = "rejected"
  /\ Quiescent
  /\ error \in SideEffects
  /\ exitCode = 1

\* C7: the telemetry task is queued, and an event submitted, only when
\* core.disableTelemetry is not set, the joined batch has succeeded and the
\* preview build has succeeded or was skipped; with disableTelemetry set
\* no event is ever submitted.
C7_TelemetryOnlyAfterSuccess ==
  /\ (task["telemetry"] # "none" \/ telemetryEvents # <<>>) =>
       /\ ~(core.defined /\ core.disableTelemetry)
       /\ promiseAll = "fulfilled"
       /\ \/ options.ignorePreview /\ previewBuild = "none"
          \/ previewBuild = "fulfilled" /\ previewChain = "fulfilled"
       /\ stats \in {"none", "fulfilled"}
       /\ \A e \in SideEffects : task[e] \in {"none", "fulfilled"}
  /\ (core.defined /\ core.disableTelemetry) =>
       (task["telemetry"] = "none" /\ telemetryEvents = <<>>)

C7_Witness ==
  /\ telemetryEvents # <<>>
  /\ previewBuild = "fulfilled"
  /\ stats = "fulfilled"

\* C8: with ignorePreview set no StoryIndexGenerator is constructed or
\* initialized, no index export is queued and the preview build is never
\* started, while the asset copy is queued always, the static copy when
\* staticDirs is set and the metadata export unless disableProjectJson.
C8_IgnorePreviewSkipsIndexOnly ==
  options.ignorePreview =>
    /\ generators = 0
    /\ initializeCalls = 0
    /\ initializedStoryIndexGenerator \in {"unset", "undefined"}
    /\ task["index"] = "none"
    /\ "index" \notin Range(effects)
    /\ previewBuild = "none"
    /\ previewChain = "none"
    /\ "queueEffects" \in Range(trace) =>
         /\ task["assets"] # "none"
         /\ task["static"] # "none" <=> staticDirs # "undefined"
         /\ task["metadata"] # "none" <=>
              ~(core.defined /\ core.disableProjectJson)

C8_Witness ==
  /\ options.ignorePreview
  /\ pc = "done"
  /\ task["static"] = "fulfilled"
  /\ task["metadata"] = "fulfilled"
  /\ task["assets"] = "fulfilled"

TelemetryEnabledRunDone ==
  /\ pc = "done"
  /\ ~(core.defined /\ core.disableTelemetry)

\* C9 as stated: in a run that returned with telemetry enabled, once
\* nothing is left to run exactly one event has been submitted, with a
\* summarized index exactly when the generator handle is present.
C9_ExactlyOneTelemetryEvent ==
  (TelemetryEnabledRunDone /\ Quiescent) =>
    /\ Len(telemetryEvents) = 1
    /\ "storyIndex" \in telemetryEvents[1] <=>
         initializedStoryIndexGenerator = "generator"

\* C9 amended: in a run that returned with telemetry enabled exactly one
\* telemetry task is queued and at most one event is submitted: one when
\* the task has fulfilled, none when its index read, upgrade lookup or
\* submission rejected; an event carries a summarized index exactly when
\* the generator handle is present.
C9_AtMostOneTelemetryEvent ==
  TelemetryEnabledRunDone =>
    /\ Len(SelectSeq(effects, LAMBDA e : e = "telemetry")) = 1
    /\ task["telemetry"] # "none"
    /\ Len(telemetryEvents) <= 1
    /\ Len(telemetryEvents) = 1 <=> task["telemetry"] = "fulfilled"
    /\ \A i \in 1..Len(telemetryEvents) :
         /\ "precedingUpgrade" \in telemetryEvents[i]
         /\ "storyIndex" \in telemetryEvents[i] <=>
              initializedStoryIndexGenerator = "generator"

C9_Witness ==
  /\ TelemetryEnabledRunDone
  /\ Len(telemetryEvents) = 1
  /\ "storyIndex" \in telemetryEvents[1]

\* C10: when a side-effect task queued before the join rejects, the call
\* never returns normally, no telemetry task is queued, the output
\* directory notice is never logged, and once nothing is left to run the
\* call has rejected.
C10_SideEffectFailureFails ==
  (\E e \in SideEffects : task[e] = "rejected") =>
    /\ pc # "done"
    /\ task["telemetry"] = "none"
    /\ telemetryEvents = <<>>
    /\ "Output directory" \notin Range(logger)
    /\ Quiescent => pc = "rejected"

\* the static copy rejected while the preview build and all else succeeded
C10_Witness ==
  /\ task["static"] = "rejected"
  /\ \A e \in SideEffects \ {"static"} : task[e] = "fulfilled"
  /\ previewChain = "fulfilled"
  /\ pc = "rejected"
  /\ error = "static"

\* C11 as stated: process.exitCode starts at 0, is assigned at most once
\* and never back to 0, and is 1 only when the preview build rejected.
C11_ExitCodeOnlyOnBuildRejection ==
  /\ exitCode \in {0, 1}
  /\ exitCodeWrites <= 1
  /\ exitCode = 1 <=> exitCodeWrites = 1
  /\ exitCode = 1 => previewBuild = "rejected"

\* C11 amended: process.exitCode starts at 0, is assigned at most once and
\* never back to 0, and is 1 only when the .catch handler of the preview
\* chain ran, that is when the preview build or its stats export rejected.
C11_ExitCodeOnlyOnPreviewChainRejection ==
  /\ exitCode \in {0, 1}
  /\ exitCodeWrites <= 1
  /\ exitCode = 1 <=> exitCodeWrites = 1
  /\ exitCode = 1 =>
       /\ previewChain = "rejected"
       /\ previewBuild = "rejected" \/ stats = "rejected"
  /\ pc = "start" => exitCode = 0

C11_Witness ==
  /\ exitCode = 1
  /\ exitCodeWrites = 1
  /\ previewBuild = "fulfilled"
  /\ stats = "rejected"
  /\ Quiescent

\* event a is in the trace, and event b, when it is there, comes after it
Before(a, b) ==
  /\ a \in Range(trace)
  /\ \A j \in 1..Len(trace) :
       trace[j] = b => \E i \in 1..(j - 1) : trace[i] = a

\* C12 as stated: the second loadAllPresets call and the apply of the six
\* sections happen only after the manager build has fulfilled.
C12_ManagerBuildBeforeSecondPass ==
  (pc \in {"loadAllPresets2", "applyAll"}
     \/ "loadAllPresets#2" \in Range(trace)
     \/ "apply(six sections)#2" \in Range(trace)) =>
    managerBuild = "fulfilled"

\* C12 amended: the manager build is started only after the second
\* loadAllPresets call and the apply of the six sections have both
\* fulfilled, in that order; while they run no manager build has started.
C12_SecondPassBeforeManagerBuild ==
  /\ pc \in {"loadAllPresets2", "applyAll"} =>
       (managerBuild = "none" /\ "managerBuilder.build" \notin Range(trace))
  /\ (pc = "managerBuild" \/ managerBuild # "none") =>
       /\ Before("loadAllPresets#2", "apply(six sections)#2")
       /\ Before("apply(six sections)#2", "managerBuilder.build")
       /\ staticDirs \in StaticDirsValues
       /\ pc # "rejected" \/ error # "apply(six sections)#2"

C12_Witness ==
  /\ managerBuild = "fulfilled"
  /\ Before("loadAllPresets#2", "apply(six sections)#2")
  /\ Before("apply(six sections)#2", "managerBuilder.build")
  /\ "managerBuilder.build" \in Range(trace)

\* C13: once the output directory notice is logged and the call has
\* returned, no queued task is pending: a queued telemetry task has settled.
C13_EffectsDrainedBeforeReturn ==
  (pc = "done" \/ "Output directory" \in Range(logger)) =>
    \A e \in Range(effects) : task[e] \in {"fulfilled", "rejected"}

\* C14: the preview build is started only after the manager build has
\* fulfilled, and the second loadAllPresets call is made only after the
\* first has fulfilled.
C14_ManagerBeforePreviewPass1BeforePass2 ==
  /\ (previewBuild # "none" \/ "previewBuilder.build" \in Range(trace)) =>
       /\ managerBuild = "fulfilled"
       /\ Before("managerBuilder.build", "previewBuilder.build")
  /\ (pc = "loadAllPresets2" \/ "loadAllPresets#2" \in Range(trace)) =>
       Before("loadAllPresets#1", "loadAllPresets#2")
  /\ pc = "loadAllPresets1" => "loadAllPresets#2" \notin Range(trace)

C14_Witness ==
  /\ previewBuild = "pending"
  /\ managerBuild = "fulfilled"
  /\ Before("loadAllPresets#1", "loadAllPresets#2")
  /\ "loadAllPresets#2" \in Range(trace)

PastManagerBuild == managerBuild = "fulfilled" /\ pc # "queueEffects"

\* C15 as stated: the static copy is queued only for a non-empty
\* staticDirs, not for an absent or empty one; the asset copy is queued in
\* every run that gets past the manager build.
C15_StaticCopyOnlyIfNonEmpty ==
  /\ task["static"] # "none" <=> (PastManagerBuild /\ staticDirs = "dirs")
  /\ task["assets"] # "none" <=> PastManagerBuild

\* C15 amended: the static copy is queued exactly when staticDirs is set,
\* an empty list included, and not when it is absent; the asset copy is
\* queued in every run that gets past the manager build.
C15_StaticCopyOnlyIfSet ==
  /\ task["static"] # "none" <=>
       (PastManagerBuild /\ staticDirs \in {"empty", "dirs"})
  /\ task["assets"] # "none" <=> PastManagerBuild
  /\ \A e \in {"static", "assets"} :
       task[e] # "none" <=> e \in Range(effects)

C15_Witness ==
  /\ staticDirs = "empty"
  /\ task["static"] = "fulfilled"
  /\ task["assets"] = "fulfilled"

EffectsQueued == "queueEffects" \in Range(trace)

\* C16: at most one StoryIndexGenerator is constructed and initialized in a
\* run; the index export and the telemetry task read the one handle, and
\* reading it initializes nothing; the handle is undefined exactly when
\* ignorePreview is set.
C16_GeneratorHandleMemoized ==
  /\ generators <= 1
  /\ initializeCalls = generators
  /\ generators = 1 <=> (EffectsQueued /\ ~options.ignorePreview)
  /\ initializedStoryIndexGenerator = "undefined" <=>
       (EffectsQueued /\ options.ignorePreview)
  /\ initializedStoryIndexGenerator \in {"pending", "generator", "rejected"} <=>
       (EffectsQueued /\ ~options.ignorePreview)
  /\ task["index"] = "fulfilled" => initializedStoryIndexGenerator = "generator"
  /\ storyIndex = "index" =>
       (initializedStoryIndexGenerator = "generator" /\ task["index"] = "fulfilled")
  /\ storyIndex = "undefined" => initializedStoryIndexGenerator = "undefined"

\* both consumers have read the handle of the one initialization
C16_Witness ==
  /\ task["index"] = "fulfilled"
  /\ storyIndex = "index"
  /\ task["telemetry"] = "fulfilled"
  /\ initializeCalls = 1
  /\ generators = 1

\* C17: a rejection of the telemetry task, at the index read, the upgrade
\* lookup or the submission, leaves the call returned normally and
\* process.exitCode at 0; once the joined batch has fulfilled and the call
\* has resumed, the call has returned normally whatever the task did.
C17_TelemetryFailureNotFatal ==
  /\ task["telemetry"] = "rejected" =>
       /\ pc = "done"
       /\ error = "none"
       /\ exitCode = 0
       /\ telemetryEvents = <<>>
  /\ (promiseAll = "fulfilled" /\ pc # "join") =>
       (pc = "done" /\ error = "none" /\ exitCode = 0)

C17_Witness ==
  /\ task["telemetry"] = "rejected"
  /\ storyIndex = "index"
  /\ pc = "done"
  /\ exitCode = 0

\* C18: when the call has returned normally, every side-effect task queued
\* before the join has fulfilled, with preview building enabled the
\* preview build has fulfilled, and so has its stats export when a stats
\* option is set, and process.exitCode is still 0.
C18_NormalReturnMeansAllSucceeded ==
  pc = "done" =>
    /\ \A e \in SideEffects :
         /\ task[e] \in {"none", "fulfilled"}
         /\ e \in Range(effects) <=> task[e] = "fulfilled"
    /\ task["assets"] = "fulfilled"
    /\ ~options.ignorePreview =>
         /\ previewBuild = "fulfilled"
         /\ previewChain = "fulfilled"
         /\ task["index"] = "fulfilled"
         /\ (options.webpackStatsJson # "false" \/ options.statsJson # "false") =>
              stats = "fulfilled"
    /\ exitCode = 0
    /\ error = "none"

C18_Witness ==
  /\ pc = "done"
  /\ ~options.ignorePreview
  /\ stats = "fulfilled"
  /\ \A e \in SideEffects : task[e] = "fulfilled"
  /\ exitCode = 0

\* the stats option in force: webpackStatsJson when it is set, else statsJson
StatsOptionSet ==
  IF options.webpackStatsJson # "false" THEN options.webpackStatsJson
  ELSE options.statsJson

\* C19: outputStats is called only when a stats option is set and the
\* preview build has fulfilled, once, with options.outputDir as target for
\* the value true and the named path otherwise; when it rejects, the
\* .catch handler logs the failure and sets process.exitCode to 1 before
\* the chain rejects, the call never returns normally, and once nothing is
\* left to run the call has rejected.
C19_StatsExportAfterBuildFailsLikeBuild ==
  /\ stats = "none" <=> statsTarget = <<>>
  /\ stats # "none" =>
       /\ StatsOptionSet # "false"
       /\ previewBuild = "fulfilled"
       /\ statsTarget =
            <<IF StatsOptionSet = "true" THEN options.outputDir
              ELSE [abs |-> FALSE, segs |-> <<StatsOptionSet>>]>>
  /\ stats = "rejected" =>
       /\ pc \in {"join", "rejected"}
       /\ previewChain \in {"pending", "rejected"}
       /\ previewChain = "rejected" =>
            /\ exitCode = 1
            /\ "Failed to build the preview" \in Range(logger)
       /\ Quiescent =>
            /\ pc = "rejected"
            /\ exitCode = 1
            /\ previewChain = "rejected"

C19_Witness ==
  /\ stats = "rejected"
  /\ statsTarget = <<options.outputDir>>
  /\ Quiescent
  /\ pc = "rejected"
  /\ error = "preview"
  /\ exitCode = 1

====
